---- MODULE Spec2Model ----
(***************************************************************************)
(* async-wormhole / stackpp: the pre-allocated, signal-grown stack          *)
(* (stackpp/src/pre_allocated_stack_.rs) and the wormhole that polls a      *)
(* guest on it.  Addresses are byte addresses; the OS memory map is kept    *)
(* per page.                                                                *)
(***************************************************************************)
EXTENDS Integers, FiniteSets, Sequences

VARIABLES
    os,       \* the build target: "linux", "macos" or "windows"
    stacks,   \* the PreAllocatedStack values that exist, by identity
    slot,     \* CURRENT_STACK of each thread: a stack identity, or None
    mem,      \* the OS's view: reserved pages, read/write pages, guard pages
    aborted,  \* the process died on a panic inside the extern "C" handler
    last,     \* the last call made: which operation, and what it returned
    given,    \* per thread: the stack of the give_to_signal not yet answered
              \* by a take_from_signal
    worm,     \* the state of the AsyncWormhole that owns stack s, if there is one
    cur,      \* per thread: the wormhole whose poll is running on it, or None
    phase,    \* per thread: "guest" while that poll's guest has control,
              \* "host" once control is back in poll, "idle" outside poll
    cache,    \* PAGE_SIZE_CACHE, the AtomicUsize of page_size()
    sys,      \* the page size the OS reports
    call,     \* per thread: where its call of page_size() stands
    hist,     \* what the calls of page_size() have done so far
    task      \* per wormhole: the inner future, the shared cell, and what the
              \* guest and the driver have seen of them

wvars == <<worm, cur, phase>>
pvars == <<cache, sys, call, hist>>
vars == <<os, stacks, slot, mem, aborted, last, given, worm, cur, phase,
          cache, sys, call, hist, task>>

-----------------------------------------------------------------------------
(* Bounds of the model *)

MaxReqPages == 4   \* requested sizes of 0..MaxReqPages whole pages
MaxOffset == 1     \* and of 1..MaxOffset bytes, which no page size divides
MaxCalls == 2      \* calls of page_size() a thread makes
MaxSuspends == 2   \* async_suspend calls a guest makes
MaxPending == 1    \* polls of an inner future that return pending

(* Program constants *)

PageSize == 4096
ExtraPages == 4

\* a stack and another one, a thread and another one
StackIds == {1, 2}
Threads == {1, 2}
None == 0
Platforms == {"linux", "macos", "windows"}
Signals == {"SIGSEGV", "SIGBUS", "SIGILL"}

\* which OS call of an operation fails, if any: the reservation, the
\* read/write commit, or (Windows) the guard-page commit
OsFaults == {"none", "alloc", "commit", "guard"}

ReqSizes == {p * PageSize : p \in 0..MaxReqPages} \cup 1..MaxOffset

\* page numbers at which the OS starts a fresh reservation: two places, so
\* close that the largest reservation at the first ends where the second begins
BaseStride == MaxReqPages + ExtraPages
Bases == {BaseStride, 2 * BaseStride}

-----------------------------------------------------------------------------
(* The OS memory map *)

PageOf(a) == a \div PageSize

\* the pages holding at least one byte of [addr, addr + size)
PagesOf(addr, size) ==
    IF size <= 0 THEN {} ELSE PageOf(addr)..PageOf(addr + size - 1)

Mapped(m) == {pb[1] : pb \in m.mapped}

EmptyMem == [mapped |-> {}, committed |-> {}, guard |-> {}]

\* the places where a reservation of size bytes fits
FreeBases(m, size) ==
    {b \in Bases : PagesOf(b * PageSize, size) \cap Mapped(m) = {}}

\* mmap(NULL, size, PROT_NONE, MAP_PRIVATE|MAP_ANON|MAP_NORESERVE)
\* VirtualAlloc(NULL, size, MEM_RESERVE, ..): the OS reserves the pages that
\* hold size bytes at the first place where they fit
alloc(m, size, osOk) ==
    LET free == FreeBases(m, size) IN
    IF osOk /\ size > 0 /\ free # {}
    THEN LET base == CHOOSE b \in free : \A c \in free : b <= c
             pages == PagesOf(base * PageSize, size)
         IN  [ok |-> TRUE, ptr |-> base * PageSize,
              mem |-> [m EXCEPT !.mapped = @ \cup {<<p, base>> : p \in pages}]]
    ELSE [ok |-> FALSE, ptr |-> 0, mem |-> m]

\* mprotect(addr, size, PROT_READ|PROT_WRITE): EINVAL unless addr is page
\* aligned, ENOMEM unless the whole range is mapped
mprotect(m, addr, size, osOk) ==
    LET pages == PagesOf(addr, size) IN
    IF osOk /\ addr % PageSize = 0 /\ pages \subseteq Mapped(m)
    THEN [ok |-> TRUE, mem |-> [m EXCEPT !.committed = @ \cup pages]]
    ELSE [ok |-> FALSE, mem |-> m]

\* VirtualAlloc(addr, size, MEM_COMMIT, prot): addr is rounded down to a page
\* and every page holding a byte of the range is committed with prot; fails
\* unless all of them are reserved
VirtualAllocCommit(m, addr, size, guarded, osOk) ==
    LET pages == PagesOf(addr, size) IN
    IF osOk /\ pages # {} /\ pages \subseteq Mapped(m)
    THEN [ok |-> TRUE,
          mem |-> IF guarded
                  THEN [m EXCEPT !.guard = @ \cup pages, !.committed = @ \ pages]
                  ELSE [m EXCEPT !.committed = @ \cup pages, !.guard = @ \ pages]]
    ELSE [ok |-> FALSE, mem |-> m]

\* munmap(addr, size): every page holding a byte of the range goes
munmap(m, addr, size) ==
    LET pages == PagesOf(addr, size) IN
    [mapped |-> {pb \in m.mapped : pb[1] \notin pages},
     committed |-> m.committed \ pages,
     guard |-> m.guard \ pages]

\* VirtualFree(addr, 0, MEM_RELEASE): the whole reservation that starts at addr
VirtualFree(m, addr) ==
    LET pages == {pb[1] : pb \in {x \in m.mapped : x[2] * PageSize = addr}} IN
    [mapped |-> {pb \in m.mapped : pb[1] \notin pages},
     committed |-> m.committed \ pages,
     guard |-> m.guard \ pages]

-----------------------------------------------------------------------------
(* PreAllocatedStack *)

\* page_size(), as new() and extend_usable() see it: the value of a call
\* that returns
page_size == PageSize

\* the page sizes an OS may report: 4 KiB, 16 KiB, 64 KiB
SysPageSizes == {PageSize, 4 * PageSize, 16 * PageSize}

\* a thread outside page_size(): pc is the next step of its call, v the local
\* page_size, n the calls it has made, late whether its call began after
\* some call had returned
NoCall == [pc |-> "idle", v |-> 0, n |-> 0, late |-> FALSE]

\* PAGE_SIZE_CACHE.load(Ordering::Relaxed) and the match on it: 0 goes on to
\* ask the OS, any other value is returned
cache_load(c, cached) ==
    IF cached = 0 THEN [c EXCEPT !.pc = "query"]
                  ELSE [c EXCEPT !.pc = "return", !.v = cached]

\* let page_size = sys_page_size()
sys_page_size(c, reported) == [c EXCEPT !.pc = "assert", !.v = reported]

\* mutant: any page size the OS reports is accepted
assert_eq_skipped(page_size_, expected) == TRUE

\* assert_eq!(page_size, 4096)
assert_eq(page_size_, expected) == page_size_ = expected

\* PAGE_SIZE_CACHE.store(page_size, Ordering::Relaxed)
cache_store(c) == [cache |-> c.v, call |-> [c EXCEPT !.pc = "return"]]

NoStack == [st |-> "none", guard_top |-> 0, top |-> 0, bottom |-> 0,
            req |-> 0, k |-> 0, resv |-> {}]

\* extend_usable(top, size): make [top - size, top) usable
extend_usable(plat, m, top, size, ok1, ok2) ==
    IF plat = "windows"
    THEN LET c == VirtualAllocCommit(m, top - size, size, FALSE, ok1) IN
         IF c.ok
         THEN LET g == VirtualAllocCommit(c.mem, top - (size + page_size),
                                          page_size, TRUE, ok2) IN
              IF g.ok THEN [ok |-> TRUE, top |-> top - size, mem |-> g.mem]
                      ELSE [ok |-> FALSE, top |-> top, mem |-> c.mem]
         ELSE [ok |-> FALSE, top |-> top, mem |-> m]
    ELSE LET c == mprotect(m, top - size, size, ok1) IN
         IF c.ok THEN [ok |-> TRUE, top |-> top - size, mem |-> c.mem]
                 ELSE [ok |-> FALSE, top |-> top, mem |-> m]

\* PreAllocatedStack::new(total_size)
new(plat, m, req, allocOk, ok1, ok2) ==
    LET total_size == req + ExtraPages * page_size
        a == alloc(m, total_size, allocOk)
        guard_top == a.ptr
        bottom == guard_top + total_size
        e == extend_usable(plat, a.mem, bottom, page_size, ok1, ok2)
    IN  IF ~a.ok THEN [res |-> "Alloc", stack |-> NoStack, mem |-> m]
        ELSE IF ~e.ok THEN [res |-> "Commit", stack |-> NoStack, mem |-> e.mem]
        ELSE [res |-> "Ok",
              stack |-> [st |-> "live", guard_top |-> guard_top, top |-> e.top,
                         bottom |-> bottom, req |-> req, k |-> 0,
                         resv |-> Mapped(a.mem) \ Mapped(m)],
              mem |-> e.mem]

\* mutant: the address of top itself counted as inside the guard
stack_pointer_inside_guard_inclusive(self, sp) ==
    self.guard_top <= sp /\ sp <= self.top

stack_pointer_inside_guard(self, sp) ==
    self.guard_top <= sp /\ sp < self.top

\* mutant: a doubling that does not fit is clamped to the pages that remain
grow_clamped(plat, m, self, ok1, ok2) ==
    LET usable_size == self.bottom - self.top
        total_size == self.bottom - self.guard_top
        size == IF 2 * usable_size > total_size
                THEN total_size - usable_size ELSE usable_size
        e == extend_usable(plat, m, self.top, size, ok1, ok2)
    IN  IF e.ok
        THEN [res |-> "Ok",
              stack |-> [self EXCEPT !.top = e.top, !.k = @ + 1],
              mem |-> e.mem]
        ELSE [res |-> "Commit", stack |-> self, mem |-> e.mem]

\* mutant: the doubling that makes the usable region the whole reservation
\* is refused too
grow_off_by_one(plat, m, self, ok1, ok2) ==
    LET usable_size == self.bottom - self.top
        total_size == self.bottom - self.guard_top
    IN  IF 2 * usable_size >= total_size
        THEN [res |-> "MaxSizeReached", stack |-> self, mem |-> m]
        ELSE LET e == extend_usable(plat, m, self.top, usable_size, ok1, ok2) IN
             IF e.ok
             THEN [res |-> "Ok",
                   stack |-> [self EXCEPT !.top = e.top, !.k = @ + 1],
                   mem |-> e.mem]
             ELSE [res |-> "Commit", stack |-> self, mem |-> e.mem]

\* mutant: no check against the size of the reservation
grow_unchecked(plat, m, self, ok1, ok2) ==
    LET usable_size == self.bottom - self.top
        e == extend_usable(plat, m, self.top, usable_size, ok1, ok2)
    IN  IF e.ok
        THEN [res |-> "Ok",
              stack |-> [self EXCEPT !.top = e.top, !.k = @ + 1],
              mem |-> e.mem]
        ELSE [res |-> "Commit", stack |-> self, mem |-> e.mem]

\* PreAllocatedStack::grow(&mut self)
grow(plat, m, self, ok1, ok2) ==
    LET usable_size == self.bottom - self.top
        total_size == self.bottom - self.guard_top
    IN  IF 2 * usable_size > total_size
        THEN [res |-> "MaxSizeReached", stack |-> self, mem |-> m]
        ELSE LET e == extend_usable(plat, m, self.top, usable_size, ok1, ok2) IN
             IF e.ok
             THEN [res |-> "Ok",
                   stack |-> [self EXCEPT !.top = e.top, !.k = @ + 1],
                   mem |-> e.mem]
             ELSE [res |-> "Commit", stack |-> self, mem |-> e.mem]

\* mutant: only the usable part is released
drop_usable_only(plat, m, self) ==
    IF plat = "windows"
    THEN VirtualFree(m, self.top)
    ELSE munmap(m, self.top, self.bottom - self.top)

\* Drop for PreAllocatedStack
drop(plat, m, self) ==
    IF plat = "windows"
    THEN VirtualFree(m, self.guard_top)
    ELSE munmap(m, self.guard_top, self.bottom - self.guard_top)

-----------------------------------------------------------------------------
(* CURRENT_STACK: the thread-local Cell<Option<PreAllocatedStack>> *)

\* give_to_signal(self): Cell::set stores self and drops the value it replaces
give_to_signal(cell, self) == [cell |-> self, dropped |-> cell]

\* mutant: the stack is handed out and stays in the slot as well
take_from_signal_keep(cell) == [cell |-> cell, ret |-> cell]

\* take_from_signal(): Cell::take leaves None behind
take_from_signal(cell) == [cell |-> None, ret |-> cell]

\* a PreAllocatedStack value goes out of scope
DropValue(plat, w, s) ==
    IF s = None THEN w
    ELSE [stacks |-> [w.stacks EXCEPT ![s] = NoStack],
          mem |-> drop(plat, w.mem, w.stacks[s])]

\* mutant: a fault that is not handled leaves the slot empty (the stack taken
\* out is dropped when the handler returns)
signal_handler_no_restore(plat, cell, w, signum, si_addr, ok1) ==
    LET expected_guard_page_signal ==
            IF plat = "macos" THEN "SIGBUS" ELSE "SIGSEGV"
    IN  IF signum # expected_guard_page_signal
        THEN [ret |-> "false", cell |-> cell, w |-> w]
        ELSE LET tk == take_from_signal(cell) IN
             IF tk.ret = None
             THEN [ret |-> "panic", cell |-> tk.cell, w |-> w]
             ELSE LET stack == w.stacks[tk.ret]
                      g == grow(plat, w.mem, stack, ok1, TRUE)
                  IN  IF stack_pointer_inside_guard(stack, si_addr) /\ g.res = "Ok"
                      THEN [ret |-> "true",
                            cell |-> give_to_signal(tk.cell, tk.ret).cell,
                            w |-> [stacks |-> [w.stacks EXCEPT ![tk.ret] = g.stack],
                                   mem |-> g.mem]]
                      ELSE [ret |-> "false", cell |-> tk.cell,
                            w |-> DropValue(plat, w, tk.ret)]

\* mutant: an empty slot is reported as a fault that is not handled
signal_handler_lenient(plat, cell, w, signum, si_addr, ok1) ==
    LET expected_guard_page_signal ==
            IF plat = "macos" THEN "SIGBUS" ELSE "SIGSEGV"
    IN  IF signum # expected_guard_page_signal
        THEN [ret |-> "false", cell |-> cell, w |-> w]
        ELSE LET tk == take_from_signal(cell) IN
             IF tk.ret = None
             THEN [ret |-> "false", cell |-> tk.cell, w |-> w]
             ELSE LET stack == w.stacks[tk.ret]
                      g == grow(plat, w.mem, stack, ok1, TRUE)
                  IN  IF stack_pointer_inside_guard(stack, si_addr) /\ g.res = "Ok"
                      THEN [ret |-> "true",
                            cell |-> give_to_signal(tk.cell, tk.ret).cell,
                            w |-> [stacks |-> [w.stacks EXCEPT ![tk.ret] = g.stack],
                                   mem |-> g.mem]]
                      ELSE [ret |-> "false",
                            cell |-> give_to_signal(tk.cell, tk.ret).cell,
                            w |-> w]

\* mutant: SIGSEGV and SIGBUS both taken for the guard-page signal
signal_handler_any_fault(plat, cell, w, signum, si_addr, ok1) ==
    IF signum \notin {"SIGSEGV", "SIGBUS"}
    THEN [ret |-> "false", cell |-> cell, w |-> w]
    ELSE LET tk == take_from_signal(cell) IN
         IF tk.ret = None
         THEN [ret |-> "panic", cell |-> tk.cell, w |-> w]
         ELSE LET stack == w.stacks[tk.ret]
                  g == grow(plat, w.mem, stack, ok1, TRUE)
              IN  IF stack_pointer_inside_guard(stack, si_addr) /\ g.res = "Ok"
                  THEN [ret |-> "true",
                        cell |-> give_to_signal(tk.cell, tk.ret).cell,
                        w |-> [stacks |-> [w.stacks EXCEPT ![tk.ret] = g.stack],
                               mem |-> g.mem]]
                  ELSE [ret |-> "false",
                        cell |-> give_to_signal(tk.cell, tk.ret).cell,
                        w |-> [stacks |-> w.stacks,
                               mem |-> IF stack_pointer_inside_guard(stack, si_addr)
                                       THEN g.mem ELSE w.mem]]

\* signal_handler(signum, siginfo, _context), cfg(target_family = "unix");
\* cell is the calling thread's CURRENT_STACK, w the stacks and the memory map
signal_handler(plat, cell, w, signum, si_addr, ok1) ==
    LET expected_guard_page_signal ==
            IF plat = "macos" THEN "SIGBUS" ELSE "SIGSEGV"
    IN  IF signum # expected_guard_page_signal
        THEN [ret |-> "false", cell |-> cell, w |-> w]
        ELSE LET tk == take_from_signal(cell) IN
             IF tk.ret = None
             THEN [ret |-> "panic", cell |-> tk.cell, w |-> w]
             ELSE LET stack == w.stacks[tk.ret]
                      g == grow(plat, w.mem, stack, ok1, TRUE)
                  IN  IF stack_pointer_inside_guard(stack, si_addr) /\ g.res = "Ok"
                      THEN [ret |-> "true",
                            cell |-> give_to_signal(tk.cell, tk.ret).cell,
                            w |-> [stacks |-> [w.stacks EXCEPT ![tk.ret] = g.stack],
                                   mem |-> g.mem]]
                      ELSE [ret |-> "false",
                            cell |-> give_to_signal(tk.cell, tk.ret).cell,
                            w |-> [stacks |-> w.stacks,
                                   mem |-> IF stack_pointer_inside_guard(stack, si_addr)
                                           THEN g.mem ELSE w.mem]]

\* signal_handler(_exception_info), cfg(target_family = "windows"): a no-op
signal_handler_windows(cell, w) == [ret |-> "false", cell |-> cell, w |-> w]

-----------------------------------------------------------------------------
(* AsyncWormhole: the inner future, the shared cell, the guest function *)

\* the values inner futures resolve to
Values == {7, 9}

\* an inner future: the value it resolves to, the polls that still return
\* pending, and how many did when it was made
NoFut == [val |-> 0, left |-> 0, first |-> 0]
Futures == {[val |-> v, left |-> l, first |-> l] : v \in Values, l \in 0..MaxPending}

\* fut: the future of SuspendedAwait(fut), kept for the record once resumed;
\* cell: the shared cell (0: nothing stashed); stashed: the cell was written
\* since the latest async_suspend began; got: what the latest async_suspend
\* returned to the guest; n: the async_suspend calls made; out: r of
\* Finished(r); polled / pend: polls of inner futures that returned pending,
\* and polls of the wormhole that reported pending
NoTask == [fut |-> NoFut, cell |-> 0, stashed |-> FALSE, got |-> 0,
           n |-> 0, out |-> 0, polled |-> 0, pend |-> 0]

\* Future::poll of the inner future
poll_future(fut) ==
    IF fut.left > 0
    THEN [res |-> "pending", fut |-> [fut EXCEPT !.left = @ - 1]]
    ELSE [res |-> "ready", fut |-> fut]

\* mutant: every poll of the inner future sends poll back to the driver
inspect_eager(state, inner) ==
    CASE state = "SuspendedAwait" -> "pending"
      [] state = "Finished" -> "ready"
      [] OTHER -> "violation"

\* poll, step 4: what poll does once the switch has returned, given the state
\* and, for SuspendedAwait, the result of polling the inner future
inspect(state, inner) ==
    CASE state = "SuspendedAwait" /\ inner = "ready" -> "loop"
      [] state = "SuspendedAwait" -> "pending"
      [] state = "Finished" -> "ready"
      [] OTHER -> "violation"

\* mutant: the guest switches to the host without recording its future
async_suspend_unrecorded(tk, fut) ==
    [state |-> "Running",
     task |-> [tk EXCEPT !.n = @ + 1, !.stashed = FALSE]]

\* Yielder::async_suspend(fut), step 1: fut moves into SuspendedAwait(fut)
async_suspend(tk, fut) ==
    [state |-> "SuspendedAwait",
     task |-> [tk EXCEPT !.fut = fut, !.n = @ + 1, !.stashed = FALSE]]

\* Yielder::async_suspend(fut), step 3: on resumption the guest reads the
\* shared cell
async_suspend_resumed(tk) == [tk EXCEPT !.got = tk.cell]

\* the guest function: 42 if it never suspends, else one more than the value
\* of its last async_suspend
guest_fn(tk) == IF tk.n = 0 THEN 42 ELSE tk.got + 1

-----------------------------------------------------------------------------
(* The calls a program makes on the stack API *)

World == [stacks |-> stacks, mem |-> mem]

InSlot(s) == \E t \in Threads : slot[t] = s
HostOwned(s) == stacks[s].st = "live" /\ ~InSlot(s)

\* op: the operation; res: its result; ret: the stack it returned or dropped
Call(op, res, ret) == [op |-> op, res |-> res, ret |-> ret]

\* the fault addresses tried against the stack found in the slot
FaultAddrs(t) ==
    IF slot[t] = None THEN {0}
    ELSE LET st == stacks[slot[t]] IN
         {st.guard_top - 1, st.guard_top, st.top - 1, st.top, st.bottom - 1}

Init ==
    /\ os \in Platforms
    /\ stacks = [s \in StackIds |-> NoStack]
    /\ slot = [t \in Threads |-> None]
    /\ mem = EmptyMem
    /\ aborted = FALSE
    /\ last = Call("init", "", None)
    /\ given = [t \in Threads |-> None]
    /\ worm = [s \in StackIds |-> "absent"]
    /\ cur = [t \in Threads |-> None]
    /\ phase = [t \in Threads |-> "idle"]
    /\ cache = 0
    /\ sys = PageSize
    /\ call = [t \in Threads |-> NoCall]
    /\ hist = [returned |-> {}, queries |-> 0, panics |-> 0]
    /\ task = [w \in StackIds |-> NoTask]

New(s, req, allocOk, ok1, ok2) ==
    /\ ~aborted
    /\ stacks[s].st = "none"
    /\ \A r \in StackIds : r < s => stacks[r].st # "none"
    /\ LET n == new(os, mem, req, allocOk, ok1, ok2) IN
       /\ stacks' = IF n.res = "Ok" THEN [stacks EXCEPT ![s] = n.stack] ELSE stacks
       /\ mem' = n.mem
       /\ last' = Call("new", n.res, IF n.res = "Ok" THEN s ELSE None)
    /\ UNCHANGED <<os, slot, aborted, given, wvars, pvars, task>>

Grow(s, ok1, ok2) ==
    /\ ~aborted
    /\ HostOwned(s)
    /\ LET g == grow(os, mem, stacks[s], ok1, ok2) IN
       /\ stacks' = [stacks EXCEPT ![s] = g.stack]
       /\ mem' = g.mem
       /\ last' = Call("grow", g.res, None)
    /\ UNCHANGED <<os, slot, aborted, given, wvars, pvars, task>>

GiveToSignal(t, s) ==
    /\ ~aborted
    /\ HostOwned(s)
    /\ LET g == give_to_signal(slot[t], s)
           w == DropValue(os, World, g.dropped)
       IN  /\ slot' = [slot EXCEPT ![t] = g.cell]
           /\ stacks' = w.stacks
           /\ mem' = w.mem
           /\ last' = Call("give", "", g.dropped)
    /\ given' = [given EXCEPT ![t] = s]
    /\ UNCHANGED <<os, aborted, wvars, pvars, task>>

TakeFromSignal(t) ==
    /\ ~aborted
    /\ LET k == take_from_signal(slot[t]) IN
       /\ slot' = [slot EXCEPT ![t] = k.cell]
       /\ last' = Call("take", "", k.ret)
    /\ given' = [given EXCEPT ![t] = None]
    /\ UNCHANGED <<os, stacks, mem, aborted, wvars, pvars, task>>

SignalHandler(t, signum, si_addr, ok1) ==
    /\ ~aborted
    /\ os # "windows"
    /\ LET h == signal_handler(os, slot[t], World, signum, si_addr, ok1) IN
       /\ slot' = [slot EXCEPT ![t] = h.cell]
       /\ stacks' = h.w.stacks
       /\ mem' = h.w.mem
       /\ aborted' = (h.ret = "panic")
       /\ last' = Call("handler", h.ret, None)
    /\ UNCHANGED <<os, given, wvars, pvars, task>>

SignalHandlerWindows(t) ==
    /\ ~aborted
    /\ os = "windows"
    /\ LET h == signal_handler_windows(slot[t], World) IN
       /\ slot' = [slot EXCEPT ![t] = h.cell]
       /\ stacks' = h.w.stacks
       /\ mem' = h.w.mem
       /\ last' = Call("handler", h.ret, None)
    /\ UNCHANGED <<os, aborted, given, wvars, pvars, task>>

DropStack(s) ==
    /\ ~aborted
    /\ HostOwned(s)
    /\ LET w == DropValue(os, World, s) IN
       /\ stacks' = w.stacks
       /\ mem' = w.mem
       /\ last' = Call("drop", "", s)
    /\ UNCHANGED <<os, slot, aborted, given, wvars, pvars, task>>

Next ==
    \/ \E s \in StackIds, req \in ReqSizes, fault \in OsFaults :
          New(s, req, fault # "alloc", fault # "commit", fault # "guard")
    \/ \E s \in StackIds, fault \in OsFaults \ {"alloc"} :
          Grow(s, fault # "commit", fault # "guard")
    \/ \E t \in Threads, s \in StackIds : GiveToSignal(t, s)
    \/ \E t \in Threads : TakeFromSignal(t)
    \/ \E t \in Threads, signum \in Signals, fault \in {"none", "commit"} :
          \E si_addr \in FaultAddrs(t) :
             SignalHandler(t, signum, si_addr, fault # "commit")
    \/ \E t \in Threads : SignalHandlerWindows(t)
    \/ \E s \in StackIds : DropStack(s)

Spec == Init /\ [][Next]_vars

-----------------------------------------------------------------------------
(* AsyncWormhole: new, poll and the guest's ways back to the host.  The      *)
(* wormhole that owns stack s is wormhole s.                                  *)

Polled(w) == \E t \in Threads : cur[t] = w

\* AsyncWormhole::new(f): a stack of the default size for the guest, nothing
\* run yet; the default is one size, the same for every wormhole
WNew(w, req, allocOk, ok1, ok2) ==
    /\ ~aborted
    /\ stacks[w].st = "none" /\ worm[w] = "absent"
    /\ \A v \in StackIds : worm[v] # "absent" => stacks[v].req = req
    /\ \A r \in StackIds : r < w => stacks[r].st # "none"
    /\ LET n == new(os, mem, req, allocOk, ok1, ok2) IN
       /\ stacks' = IF n.res = "Ok" THEN [stacks EXCEPT ![w] = n.stack] ELSE stacks
       /\ worm' = IF n.res = "Ok" THEN [worm EXCEPT ![w] = "NotStarted"] ELSE worm
       /\ mem' = n.mem
       /\ last' = Call("wnew", n.res, IF n.res = "Ok" THEN w ELSE None)
    /\ UNCHANGED <<os, slot, aborted, given, cur, phase, pvars, task>>

\* poll, steps 1 and 2, called by the driver on an idle thread or by the guest
\* that has control of the thread: a finished wormhole reports ready; any
\* other gives its stack to the signal handler and switches to its guest,
\* which starts, or resumes inside the async_suspend it is suspended in.
\* A give that replaces the stack of the guest making the call releases the
\* memory it runs on, and the process dies on its next stack access.
WPoll(t, w) ==
    /\ ~aborted
    /\ worm[w] \in {"NotStarted", "SuspendedAwait", "Finished"}
    /\ ~Polled(w)
    /\ cur[t] = None \/ phase[t] = "guest"
    /\ IF worm[w] = "Finished"
       THEN /\ last' = Call("poll", "ready", None)
            /\ UNCHANGED <<stacks, slot, mem, aborted, given, wvars, task>>
       ELSE LET g == give_to_signal(slot[t], w)
                wd == DropValue(os, World, g.dropped)
            IN  /\ slot' = [slot EXCEPT ![t] = g.cell]
                /\ given' = [given EXCEPT ![t] = w]
                /\ stacks' = wd.stacks
                /\ mem' = wd.mem
                /\ IF g.dropped # None
                   THEN /\ aborted' = TRUE
                        /\ last' = Call("poll", "crash", g.dropped)
                        /\ UNCHANGED <<wvars, task>>
                   ELSE /\ worm' = [worm EXCEPT ![w] = "Running"]
                        /\ cur' = [cur EXCEPT ![t] = w]
                        /\ phase' = [phase EXCEPT ![t] = "guest"]
                        /\ task' = IF worm[w] = "SuspendedAwait"
                                   THEN [task EXCEPT ![w] = async_suspend_resumed(@)]
                                   ELSE task
                        /\ last' = Call("poll", "switched", None)
                        /\ UNCHANGED aborted
    /\ UNCHANGED <<os, pvars>>

\* a fault while the guest has control: the handler runs; a fault it does not
\* handle ends the process
GuestFault(t, signum, si_addr, ok1) ==
    /\ ~aborted
    /\ cur[t] # None /\ phase[t] = "guest"
    /\ LET h == IF os = "windows"
                THEN signal_handler_windows(slot[t], World)
                ELSE signal_handler(os, slot[t], World, signum, si_addr, ok1)
       IN  /\ slot' = [slot EXCEPT ![t] = h.cell]
           /\ stacks' = h.w.stacks
           /\ mem' = h.w.mem
           /\ aborted' = (h.ret # "true")
           /\ last' = Call("handler", h.ret, None)
    /\ UNCHANGED <<os, given, wvars, pvars, task>>

\* Yielder::async_suspend(fut): SuspendedAwait(fut), then switch_to_host;
\* what it does to the wormhole's state and to the control of the thread
Suspend(t) ==
    /\ ~aborted
    /\ cur[t] # None /\ phase[t] = "guest"
    /\ worm' = [worm EXCEPT ![cur[t]] = async_suspend(task[cur[t]], NoFut).state]
    /\ phase' = [phase EXCEPT ![t] = "host"]
    /\ last' = Call("async_suspend", "", None)
    /\ UNCHANGED <<os, stacks, slot, mem, aborted, given, cur, pvars>>

\* async_suspend on a future the model does not follow
GuestSuspend(t) == Suspend(t) /\ UNCHANGED task

\* async_suspend(fut)
GuestSuspendOn(t, fut) ==
    /\ Suspend(t)
    /\ task[cur[t]].n < MaxSuspends
    /\ task' = [task EXCEPT ![cur[t]] = async_suspend(@, fut).task]

\* the guest function returns: Finished(result), then switch_to_host
GuestReturn(t) ==
    /\ ~aborted
    /\ cur[t] # None /\ phase[t] = "guest"
    /\ worm' = [worm EXCEPT ![cur[t]] = "Finished"]
    /\ task' = [task EXCEPT ![cur[t]].out = guest_fn(task[cur[t]])]
    /\ phase' = [phase EXCEPT ![t] = "host"]
    /\ last' = Call("return", "", None)
    /\ UNCHANGED <<os, stacks, slot, mem, aborted, given, cur, pvars>>

\* poll, steps 3 and 4: take the stack back from the slot, then look at the
\* state: Finished reports ready; SuspendedAwait polls the inner future and
\* reports pending, or stashes its result and goes back to step 2; any other
\* state is an invariant violation.  inner is the result of polling the
\* inner future; this is what poll does to the slot, the wormhole's state and
\* the control of the thread
AfterSwitch(t, inner) ==
    /\ ~aborted
    /\ cur[t] # None /\ phase[t] = "host"
    /\ LET w == cur[t]
           k == take_from_signal(slot[t])
           todo == inspect(worm[w], inner)
       IN  IF k.ret = None \/ todo = "violation"
           THEN /\ aborted' = TRUE
                /\ slot' = [slot EXCEPT ![t] = k.cell]
                /\ given' = [given EXCEPT ![t] = None]
                /\ last' = Call("poll", "panic", None)
                /\ UNCHANGED wvars
           ELSE IF todo = "loop"
           THEN /\ slot' = [slot EXCEPT ![t] = give_to_signal(k.cell, k.ret).cell]
                /\ given' = [given EXCEPT ![t] = k.ret]
                /\ worm' = [worm EXCEPT ![w] = "Running"]
                /\ phase' = [phase EXCEPT ![t] = "guest"]
                /\ last' = Call("poll", "switched", None)
                /\ UNCHANGED <<aborted, cur>>
           ELSE /\ slot' = [slot EXCEPT ![t] = k.cell]
                /\ given' = [given EXCEPT ![t] = None]
                /\ cur' = [cur EXCEPT ![t] = None]
                /\ phase' = [phase EXCEPT ![t] = "idle"]
                /\ last' = Call("poll", todo, k.ret)
                /\ UNCHANGED <<aborted, worm>>
    /\ UNCHANGED <<os, stacks, mem, pvars>>

\* steps 3 and 4 for a future the model does not follow: its poll returns
\* either result
PollAfterSwitch(t, ready) ==
    /\ AfterSwitch(t, IF ready THEN "ready" ELSE "pending")
    /\ UNCHANGED task

\* what steps 3 and 4 do to the inner future and the shared cell
after_switch(tk, state) ==
    LET f == poll_future(tk.fut)
        todo == inspect(state, f.res)
    IN  IF state # "SuspendedAwait" \/ todo = "violation" THEN tk
        ELSE IF todo = "loop"
        THEN async_suspend_resumed(
                 [tk EXCEPT !.fut = f.fut, !.cell = f.fut.val, !.stashed = TRUE])
        ELSE [tk EXCEPT !.fut = f.fut,
                        !.polled = IF f.res = "pending" THEN @ + 1 ELSE @,
                        !.pend = IF todo = "pending" THEN @ + 1 ELSE @]

\* steps 3 and 4
PollAfterSwitchOn(t) ==
    /\ AfterSwitch(t, poll_future(task[cur[t]].fut).res)
    /\ task' = IF slot[t] = None THEN task
               ELSE [task EXCEPT ![cur[t]] = after_switch(@, worm[cur[t]])]

\* the wormhole is dropped between polls, its stack with it
WDrop(w) ==
    /\ ~aborted
    /\ worm[w] # "absent" /\ ~Polled(w)
    /\ HostOwned(w)
    /\ LET wd == DropValue(os, World, w) IN
       /\ stacks' = wd.stacks
       /\ mem' = wd.mem
    /\ worm' = [worm EXCEPT ![w] = "absent"]
    /\ task' = [task EXCEPT ![w] = NoTask]
    /\ last' = Call("wdrop", "", w)
    /\ UNCHANGED <<os, slot, aborted, given, cur, phase, pvars>>

NextW ==
    \/ \E w \in StackIds, req \in ReqSizes, fault \in OsFaults :
          WNew(w, req, fault # "alloc", fault # "commit", fault # "guard")
    \/ \E t \in Threads, w \in StackIds : WPoll(t, w)
    \/ \E t \in Threads, signum \in Signals, fault \in {"none", "commit"} :
          \E si_addr \in FaultAddrs(t) :
             GuestFault(t, signum, si_addr, fault # "commit")
    \/ \E t \in Threads : GuestSuspend(t)
    \/ \E t \in Threads : GuestReturn(t)
    \/ \E t \in Threads, ready \in BOOLEAN : PollAfterSwitch(t, ready)
    \/ \E w \in StackIds : WDrop(w)

SpecW == Init /\ [][NextW]_vars

\* one wormhole, of the default stack size, followed with the futures its
\* guest suspends on and the values that pass between guest and host
Followed == 1
DefaultStackSize == MaxReqPages * PageSize

NextV ==
    \/ \E fault \in OsFaults :
          WNew(Followed, DefaultStackSize,
               fault # "alloc", fault # "commit", fault # "guard")
    \/ \E t \in Threads : WPoll(t, Followed)
    \/ \E t \in Threads, signum \in Signals, fault \in {"none", "commit"} :
          \E si_addr \in FaultAddrs(t) :
             GuestFault(t, signum, si_addr, fault # "commit")
    \/ \E t \in Threads, fut \in Futures : GuestSuspendOn(t, fut)
    \/ \E t \in Threads : GuestReturn(t)
    \/ \E t \in Threads : PollAfterSwitchOn(t)
    \/ WDrop(Followed)

SpecV == Init /\ [][NextV]_vars

-----------------------------------------------------------------------------
(* page_size(): calls of several threads, step by step.  The cache is one    *)
(* atomic location: every load sees the latest store.                         *)

svars == <<os, stacks, slot, mem, aborted, last, given, worm, cur, phase, task>>

\* the process starts on a machine with one of the page sizes
InitP ==
    /\ os \in Platforms
    /\ stacks = [s \in StackIds |-> NoStack]
    /\ slot = [t \in Threads |-> None]
    /\ mem = EmptyMem
    /\ aborted = FALSE
    /\ last = Call("init", "", None)
    /\ given = [t \in Threads |-> None]
    /\ worm = [s \in StackIds |-> "absent"]
    /\ cur = [t \in Threads |-> None]
    /\ phase = [t \in Threads |-> "idle"]
    /\ cache = 0
    /\ sys \in SysPageSizes
    /\ call = [t \in Threads |-> NoCall]
    /\ hist = [returned |-> {}, queries |-> 0, panics |-> 0]
    /\ task = [w \in StackIds |-> NoTask]

\* thread t calls page_size()
PageSizeCall(t) ==
    /\ call[t].pc = "idle" /\ call[t].n < MaxCalls
    /\ call' = [call EXCEPT ![t] = [pc |-> "load", v |-> 0, n |-> @.n + 1,
                                     late |-> hist.returned # {}]]
    /\ UNCHANGED <<svars, cache, sys, hist>>

PageSizeLoad(t) ==
    /\ call[t].pc = "load"
    /\ call' = [call EXCEPT ![t] = cache_load(@, cache)]
    /\ UNCHANGED <<svars, cache, sys, hist>>

PageSizeQuery(t) ==
    /\ call[t].pc = "query"
    /\ call' = [call EXCEPT ![t] = sys_page_size(@, sys)]
    /\ hist' = [hist EXCEPT !.queries = @ + 1]
    /\ UNCHANGED <<svars, cache, sys>>

\* a failed assertion panics: the call ends without a value
PageSizeAssert(t) ==
    /\ call[t].pc = "assert"
    /\ IF assert_eq(call[t].v, 4096)
       THEN /\ call' = [call EXCEPT ![t].pc = "store"]
            /\ UNCHANGED hist
       ELSE /\ call' = [call EXCEPT ![t].pc = "idle", ![t].v = 0]
            /\ hist' = [hist EXCEPT !.panics = @ + 1]
    /\ UNCHANGED <<svars, cache, sys>>

PageSizeStore(t) ==
    /\ call[t].pc = "store"
    /\ cache' = cache_store(call[t]).cache
    /\ call' = [call EXCEPT ![t] = cache_store(@).call]
    /\ UNCHANGED <<svars, sys, hist>>

PageSizeReturn(t) ==
    /\ call[t].pc = "return"
    /\ hist' = [hist EXCEPT !.returned = @ \cup {call[t].v}]
    /\ call' = [call EXCEPT ![t].pc = "idle", ![t].v = 0]
    /\ UNCHANGED <<svars, cache, sys>>

NextP ==
    \/ \E t \in Threads : PageSizeCall(t)
    \/ \E t \in Threads : PageSizeLoad(t)
    \/ \E t \in Threads : PageSizeQuery(t)
    \/ \E t \in Threads : PageSizeAssert(t)
    \/ \E t \in Threads : PageSizeStore(t)
    \/ \E t \in Threads : PageSizeReturn(t)

SpecP == InitP /\ [][NextP]_vars

-----------------------------------------------------------------------------
(* Properties *)

Live(s) == stacks[s].st = "live"
Usable(st) == st.bottom - st.top
Total(st) == st.bottom - st.guard_top
Aligned(a) == a % PageSize = 0
Unix == os # "windows"
GuardPageSignal == IF os = "macos" THEN "SIGBUS" ELSE "SIGSEGV"

RECURSIVE Pow2(_)
Pow2(n) == IF n <= 0 THEN 1 ELSE 2 * Pow2(n - 1)

\* C1: every stack new() returned, whatever size was asked for and whatever
\* grow() calls and handler runs followed, has guard_top <= top <= bottom,
\* all three page aligned, and a reservation of whole pages.
C1_AlignedAndOrdered ==
    \A s \in StackIds : Live(s) =>
        LET st == stacks[s] IN
        /\ st.guard_top <= st.top /\ st.top <= st.bottom
        /\ Aligned(st.guard_top) /\ Aligned(st.top) /\ Aligned(st.bottom)
        /\ Aligned(Total(st))

\* what remains of C1 on the Unix builds, where mprotect refuses the
\* unaligned first page and new() returns no stack
C1_OnUnix == Unix => C1_AlignedAndOrdered

\* and for the ordering alone, on every build
C1_Ordered ==
    \A s \in StackIds : Live(s) =>
        stacks[s].guard_top <= stacks[s].top /\ stacks[s].top <= stacks[s].bottom

\* C2: after k grow() calls that returned Ok, a stack's usable size is
\* 2^k pages (so each of them lowered top by the whole usable size).
C2_Doubling ==
    \A s \in StackIds : Live(s) =>
        Usable(stacks[s]) = Pow2(stacks[s].k) * PageSize

C2_Witness ==
    \E s \in StackIds : Live(s) /\ stacks[s].k = 3
                        /\ Usable(stacks[s]) = 8 * PageSize

\* C3: grow() with 2 * usable > total returns the max-size error and changes
\* neither the stack nor the memory map; with 2 * usable <= total it never
\* returns that error.
C3_Refusal ==
    \A s \in StackIds, ok1 \in BOOLEAN, ok2 \in BOOLEAN : Live(s) =>
        LET g == grow(os, mem, stacks[s], ok1, ok2) IN
        IF 2 * Usable(stacks[s]) > Total(stacks[s])
        THEN /\ g.res = "MaxSizeReached"
             /\ g.stack = stacks[s]
             /\ g.mem = mem
        ELSE g.res # "MaxSizeReached"

\* a grow() refused although uncommitted pages remain below top
C3_Witness ==
    /\ last.op = "grow" /\ last.res = "MaxSizeReached"
    /\ \E s \in StackIds : Live(s) /\ stacks[s].top > stacks[s].guard_top
                           /\ stacks[s].k > 0

\* the stack the handler of thread t finds, and what it leaves of it
Found(t) == IF slot[t] = None THEN NoStack ELSE stacks[slot[t]]
Left(t, h) == IF slot[t] = None THEN NoStack ELSE h.w.stacks[slot[t]]

C5_SlotRestored ==
    Unix =>
    \A t \in Threads, ok1 \in BOOLEAN : \A a \in FaultAddrs(t) :
        slot[t] # None =>
           LET h == signal_handler(os, slot[t], World, GuardPageSignal, a, ok1) IN
           /\ h.ret \in {"true", "false"}
           /\ h.cell = slot[t]
           /\ Left(t, h).st = "live"
           /\ Left(t, h).guard_top = Found(t).guard_top
           /\ Left(t, h).bottom = Found(t).bottom

\* the handler has refused a fault or failed to grow, and the stack is in the slot
C5_Witness ==
    /\ Unix /\ last.op = "handler" /\ last.res = "false"
    /\ \A t \in Threads : slot[t] # None /\ stacks[slot[t]].k > 0

\* C6: the handler run with the guard-page signal and an empty slot panics:
\* it returns nothing and grows nothing.
C6_EmptySlotPanics ==
    /\ Unix =>
       \A t \in Threads, ok1 \in BOOLEAN : \A a \in FaultAddrs(t) :
          slot[t] = None =>
             LET h == signal_handler(os, slot[t], World, GuardPageSignal, a, ok1) IN
             /\ h.ret = "panic"
             /\ h.cell = None
             /\ h.w = World
    /\ aborted <=> (last.op = "handler" /\ last.res = "panic")

C6_Witness ==
    /\ aborted /\ last.op = "handler" /\ last.res = "panic"
    /\ \E s \in StackIds : Live(s)

\* C7: take_from_signal returns the stack of the give_to_signal before it on
\* the same thread, whatever handler runs came between, and empties the slot;
\* with no give before it, it returns None.
C7_RoundTrip ==
    \A t \in Threads :
        /\ take_from_signal(slot[t]) = [cell |-> None, ret |-> given[t]]
        /\ given[t] # None => Live(given[t])
        /\ (last.op = "take" /\ last.ret # None) =>
              /\ Live(last.ret)
              /\ slot[t] # last.ret

\* a stack that has grown twice comes back from the slot
C7_Witness ==
    /\ Unix /\ last.op = "take" /\ last.ret # None
    /\ stacks[last.ret].st = "live" /\ stacks[last.ret].k = 2

\* C8: a stack in a thread's slot stays there, and stays reserved, until the
\* handler takes it out or take_from_signal reclaims it.
C8_SlotExclusive ==
    [][\A t \in Threads : slot[t] # None =>
          /\ stacks'[slot[t]].st = "live"
          /\ (slot'[t] # slot[t] => last'.op \in {"take", "handler"})]_vars

\* C9: dropping a stack releases the pages new() reserved for it (requested
\* size + 4 pages from guard_top), all of them reserved until then, and no
\* other page; guard_top and bottom are those new() set.
Reserved(st) == PagesOf(st.guard_top, st.req + ExtraPages * PageSize)

C9_ReleaseWhatWasReserved ==
    \A s \in StackIds : Live(s) =>
        LET st == stacks[s] IN
        /\ st.resv = Reserved(st)
        /\ st.resv \subseteq Mapped(mem)
        /\ \A p \in st.resv : st.guard_top <= p * PageSize
        /\ Total(st) = st.req + ExtraPages * PageSize
        /\ Mapped(mem) \ Mapped(drop(os, mem, st)) = st.resv

\* a stack has been dropped and no page is left reserved
C9_Witness ==
    /\ last.op = "drop"
    /\ Mapped(mem) = {}
    /\ \A s \in StackIds : ~Live(s)

\* C10: while a poll's guest has control of a thread, the thread's slot holds
\* that wormhole's stack; a thread outside poll has an empty slot; a wormhole
\* that is not being polled owns its stack.
C10_SlotFollowsPoll ==
    /\ \A t \in Threads :
          (cur[t] # None /\ phase[t] = "guest") =>
              slot[t] = cur[t] /\ Live(cur[t])
    /\ \A t \in Threads : cur[t] = None => slot[t] = None
    /\ \A w \in StackIds : (worm[w] # "absent" /\ ~Polled(w)) => HostOwned(w)

\* what holds of C10 as long as no guest has polled another wormhole
C10_UntilNestedPoll ==
    ~(last.op = "poll" /\ last.res = "crash") => C10_SlotFollowsPoll

\* the handler runs it takes until a guest that keeps faulting at address a of
\* stack st gets past the fault: each run is one grow(), and the runs end when
\* a is usable or the handler reports the fault as not handled
RECURSIVE FaultRounds(_, _, _, _)
FaultRounds(plat, m, st, a) ==
    IF ~stack_pointer_inside_guard(st, a) THEN 0
    ELSE LET g == grow(plat, m, st, TRUE, TRUE) IN
         IF g.res # "Ok" THEN 0
         ELSE 1 + FaultRounds(plat, g.mem, g.stack, a)

\* C13: a stack sees at most log2(total / page size) successful grows, so a
\* guest faulting at one address of the guard gets past it after that many
\* handler runs at most; each handled fault is one more grow and doubles the
\* usable size; a fresh stack whose guest needs 8 pages takes exactly 3 runs
\* and has 8 usable pages exactly after 3 grows.
C13_BoundedGrows ==
    \A s \in StackIds : Live(s) =>
        LET st == stacks[s] IN
        /\ Pow2(st.k) * PageSize <= Total(st)
        /\ Usable(st) = 8 * PageSize <=> st.k = 3
        /\ Unix =>
              /\ \A a \in {st.guard_top, st.top - 1, st.top, st.bottom - 8 * PageSize} :
                    LET n == FaultRounds(os, mem, st, a) IN
                    /\ Pow2(st.k + n) * PageSize <= Total(st)
                    /\ (st.k = 0 /\ a = st.bottom - 8 * PageSize /\ a >= st.guard_top)
                          => n = 3
              /\ \A t \in Threads, ok1 \in BOOLEAN :
                    slot[t] = s =>
                       LET h == signal_handler(os, slot[t], World, GuardPageSignal,
                                               st.guard_top, ok1)
                       IN  h.ret = "true" =>
                              /\ h.w.stacks[s].k = st.k + 1
                              /\ Usable(h.w.stacks[s]) = 2 * Usable(st)

\* the handler has handled a fault, and a guest that faulted at guard_top
\* still has two more faults before it
C13_Witness ==
    /\ Unix /\ last.op = "handler" /\ last.res = "true"
    /\ \E t \in Threads :
          /\ slot[t] # None
          /\ stacks[slot[t]].k = 1
          /\ FaultRounds(os, mem, stacks[slot[t]], stacks[slot[t]].guard_top) = 2

\* C14: the usable size never exceeds the size asked of new(), so that a stack
\* whose grow() refuses still has the 4 extra pages between guard_top and top.
C14_ExtraPagesKept ==
    \A s \in StackIds : Live(s) =>
        LET st == stacks[s] IN
        /\ Usable(st) <= st.req
        /\ grow(os, mem, st, TRUE, TRUE).res = "MaxSizeReached"
              => st.top - st.guard_top >= ExtraPages * PageSize

\* what the doubling policy does keep: the usable size within the reservation
C14_WithinReservation ==
    \A s \in StackIds : Live(s) => Usable(stacks[s]) <= Total(stacks[s])

\* the pages of [top - page size, top), where Windows keeps the guard page
GuardPages(st) == PagesOf(st.top - PageSize, PageSize)

\* C15: on Windows a new(), and a grow() that passes the doubling check, with
\* no OS call failing, succeeds and leaves the guard page on
\* [top - page size, top), inside the stack's own reservation; this includes
\* the grow() with 2 * usable = total.
C15_GuardPageBelowTop ==
    os = "windows" =>
       /\ \A req \in ReqSizes :
             LET n == new(os, mem, req, TRUE, TRUE, TRUE) IN
             n.res = "Ok" =>
                /\ GuardPages(n.stack) \subseteq n.mem.guard
                /\ GuardPages(n.stack) \subseteq n.stack.resv
       /\ \A s \in StackIds : Live(s) =>
             LET st == stacks[s]
                 g == grow(os, mem, st, TRUE, TRUE)
             IN  2 * Usable(st) <= Total(st) =>
                   /\ g.res = "Ok"
                   /\ GuardPages(g.stack) \subseteq g.mem.guard
                   /\ GuardPages(g.stack) \subseteq st.resv
                   /\ g.mem.guard \ mem.guard \subseteq st.resv

\* what holds on Windows of the grows of a page-aligned stack that stay below
\* the whole reservation
C15_WhileRoomIsLeft ==
    os = "windows" =>
       \A s \in StackIds : Live(s) =>
          LET st == stacks[s]
              g == grow(os, mem, st, TRUE, TRUE)
          IN  (Aligned(st.top) /\ 2 * Usable(st) < Total(st)) =>
                /\ g.res = "Ok"
                /\ GuardPages(g.stack) \subseteq g.mem.guard
                /\ GuardPages(g.stack) \subseteq st.resv

C18_NoOrphanReservation ==
    /\ Mapped(mem) = UNION {stacks[s].resv : s \in StackIds}
    /\ \A s, r \in StackIds : s # r => stacks[s].resv \cap stacks[r].resv = {}
    /\ (last.op = "new" /\ last.res = "Commit" /\ \A s \in StackIds : ~Live(s))
          => Mapped(mem) = {}

\* what holds of C18: the reservations of the live stacks are disjoint and
\* reserved
C18_OwnedPagesReserved ==
    /\ UNION {stacks[s].resv : s \in StackIds} \subseteq Mapped(mem)
    /\ \A s, r \in StackIds : s # r => stacks[s].resv \cap stacks[r].resv = {}

\* C19: a call of page_size() returns 4096 or nothing; once a call has
\* returned the cache holds 4096 and no call begun since asks the OS; on a
\* machine with another page size every call that asks the OS panics, the
\* cache stays 0 and no call returns.
C19_PageSizeCached ==
    /\ hist.returned \subseteq {4096}
    /\ cache \in {0, 4096}
    /\ hist.returned # {} => cache = 4096
    /\ \A t \in Threads :
          call[t].late => call[t].pc \notin {"query", "assert", "store"}
    /\ sys # 4096 =>
          /\ cache = 0
          /\ hist.returned = {}
          /\ \A t \in Threads : call[t].pc \notin {"store", "return"}
          /\ hist.panics + Cardinality({t \in Threads : call[t].pc = "assert"})
                = hist.queries

\* both threads made their first call at once and each asked the OS; both
\* returned 4096, and their second calls returned without asking again
C19_Witness ==
    /\ hist.returned = {4096} /\ hist.queries = 2 /\ cache = 4096
    /\ \A t \in Threads : call[t].pc = "idle" /\ call[t].n = 2 /\ call[t].late

\* thread t is in poll's steps 3 and 4, about to poll the inner future
AtInnerPoll(t) ==
    phase[t] = "host" /\ cur[t] # None /\ worm[cur[t]] = "SuspendedAwait"

C12_SuspendReturnsValue ==
    \A w \in StackIds :
        /\ (worm[w] \in {"Running", "Finished"} /\ task[w].n > 0) =>
              /\ task[w].stashed
              /\ task[w].got = task[w].fut.val
        /\ worm[w] = "Finished" =>
              /\ task[w].out = guest_fn(task[w])
              /\ task[w].n > 0 => task[w].out = task[w].fut.val + 1

\* what holds of C12 for a wormhole none of whose polls has reported pending
C12_UntilPending ==
    \A w \in StackIds :
        task[w].pend = 0 =>
           /\ (worm[w] \in {"Running", "Finished"} /\ task[w].n > 0) =>
                 /\ task[w].stashed
                 /\ task[w].got = task[w].fut.val
           /\ worm[w] = "Finished" =>
                 /\ task[w].out = guest_fn(task[w])
                 /\ task[w].n > 0 => task[w].out = task[w].fut.val + 1

\* C17: whenever control is back on the host inside poll the state is
\* SuspendedAwait or Finished; control leaves the guest only for the host,
\* and only by async_suspend or by the guest function's return, and reaches
\* the guest only from poll.
C17_SwitchPoints ==
    /\ [](\A t \in Threads :
            phase[t] = "host" =>
               /\ cur[t] # None
               /\ worm[cur[t]] \in {"SuspendedAwait", "Finished"})
    /\ [][\A t \in Threads :
            /\ (phase[t] = "guest" /\ phase'[t] # "guest") =>
                  /\ phase'[t] = "host"
                  /\ last'.op \in {"async_suspend", "return"}
            /\ (phase[t] # "guest" /\ phase'[t] = "guest") =>
                  /\ last'.op = "poll"
                  /\ worm'[cur'[t]] = "Running"]_vars

\* one guest has suspended and its thread is back in poll, while the other
\* thread runs the guest of the other wormhole
C17_Witness ==
    /\ last.op = "async_suspend"
    /\ \E t, u \in Threads :
          /\ phase[t] = "host" /\ worm[cur[t]] = "SuspendedAwait"
          /\ phase[u] = "guest" /\ worm[cur[u]] = "Running"

====
